---- MODULE Spec2Model ----
(***************************************************************************)
(* Windowed sparsification of a time-ordered stream of observations, as    *)
(* implemented by write_sparse_distance_matrix (later variant, notebook    *)
(* lines 263-314).  One pass over the rows of the input; the live window   *)
(* (time_window, space_window, left_index, right_index) is the only        *)
(* mutable state; the output is an append-only log of (x, y, distance).    *)
(*                                                                         *)
(* Timestamps are minutes 0..MaxTs.  Coordinates are points 0..MaxPos of a *)
(* line and the metric is the absolute difference: the haversine metric of *)
(* the library is an external collaborator, used only as a symmetric,      *)
(* non-negative pairwise distance.                                         *)
(***************************************************************************)
EXTENDS Integers, Sequences, FiniteSets

\* ---------------------------------------------------------------- bounds
MaxRows == 3
MaxTs == 2
MaxPos == 1

\* ---------------------------------------------------------------- inputs
\* A date field: a string that matches date_format and denotes minute t,
\* or a string that does not match it.
Dates == {[ok |-> TRUE, t |-> m] : m \in 0..MaxTs} \cup {[ok |-> FALSE, t |-> 0]}
Coords == 0..MaxPos
Rows == [date : Dates, coords : Coords]
TimeThresholds == -1..MaxTs
SpaceThresholds == -1..MaxPos

VARIABLES
  time_threshold,   \* argument of write_sparse_distance_matrix
  space_threshold,  \* argument of write_sparse_distance_matrix
  input,            \* rows read from rr so far (history of the stream)
  header,           \* the header row has been written
  out,              \* data rows written to wr, in order
  left_index,
  right_index,
  time_window,
  space_window,
  current_ts,
  current_coords,
  pc,
  metric_calls,     \* history: number of calls of dist.pairwise
  evictions,        \* history: number of elements removed from time_window
  insertions        \* history: number of elements appended to time_window

vars == <<time_threshold, space_threshold, input, header, out, left_index,
          right_index, time_window, space_window, current_ts, current_coords, pc,
          metric_calls, evictions, insertions>>

\* ---------------------------------------------------------------- helpers
\* datetime.strptime(s, date_format): the timestamp, or ValueError.
strptime(s) == IF s.ok THEN [raised |-> FALSE, ts |-> s.t] ELSE [raised |-> TRUE, ts |-> 0]

\* The pluggable metric: symmetric, non-negative.
Dist(a, b) == IF a >= b THEN a - b ELSE b - a

\* dist.pairwise(space_window, [current_coords]): one distance per window
\* element, in window order.
pairwise(window, coords) == [k \in 1..Len(window) |-> Dist(window[k], coords)]

\* The predicate passed to find: lambda ts: current_ts - ts <= time_threshold
TimePredStrict(cur, ts) == cur - ts < time_threshold
TimePred(cur, ts) == cur - ts <= time_threshold

\* The filter of the emit loop: d <= space_threshold
SpaceTestOpen(d) == d <= space_threshold + 1
SpaceTestStrict(d) == d < space_threshold
SpaceTest(d) == d <= space_threshold

\* find(coll, pred): zero-based index of the first element satisfying the
\* predicate; ValueError when there is none.
findKeepAll(coll, cur) == [raised |-> FALSE, i |-> 0]
RECURSIVE findFrom(_, _, _)
findFrom(coll, cur, i) ==
  IF i >= Len(coll) THEN [raised |-> TRUE, i |-> 0]
  ELSE IF TimePred(cur, coll[i + 1]) THEN [raised |-> FALSE, i |-> i]
  ELSE findFrom(coll, cur, i + 1)
find(coll, cur) == findFrom(coll, cur, 0)

\* dropn(deq, n): n times popleft.
dropnRight(deq, n) == SubSeq(deq, 1, Len(deq) - n)
RECURSIVE dropn(_, _)
dropn(deq, n) == IF n = 0 THEN deq ELSE dropn(Tail(deq), n - 1)

\* The two writerow calls for window offset i.
EmitRowsOneWay(li, ri, i, d) ==
  << [x |-> li + i, y |-> ri, distance |-> d] >>
EmitRowsSelf(li, ri, i, d) ==
  << [x |-> ri, y |-> ri, distance |-> d],
     [x |-> ri, y |-> ri, distance |-> d] >>
EmitRows(li, ri, i, d) ==
  << [x |-> li + i, y |-> ri, distance |-> d],
     [x |-> ri, y |-> li + i, distance |-> d] >>

\* for i, d in enumerate(np.nditer(distances)): ...
RECURSIVE EmitLoopReversed(_, _, _, _)
EmitLoopReversed(distances, i, li, ri) ==
  IF i >= Len(distances) THEN << >>
  ELSE EmitLoopReversed(distances, i + 1, li, ri)
       \o (IF SpaceTest(distances[i + 1])
             THEN EmitRows(li, ri, i, distances[i + 1])
             ELSE << >>)
RECURSIVE EmitLoop(_, _, _, _)
EmitLoop(distances, i, li, ri) ==
  IF i >= Len(distances) THEN << >>
  ELSE (IF SpaceTest(distances[i + 1])
          THEN EmitRows(li, ri, i, distances[i + 1])
          ELSE << >>)
       \o EmitLoop(distances, i + 1, li, ri)

\* ---------------------------------------------------------------- Init
Init ==
  /\ time_threshold \in TimeThresholds
  /\ space_threshold \in SpaceThresholds
  /\ input = << >>
  /\ header = FALSE
  /\ out = << >>
  /\ left_index = 0
  /\ right_index = 0
  /\ time_window = << >>
  /\ space_window = << >>
  /\ current_ts = 0
  /\ current_coords = 0
  /\ pc = "start"
  /\ metric_calls = 0
  /\ evictions = 0
  /\ insertions = 0

\* ---------------------------------------------------------------- actions
\* Open the files, write the header, enter go (lines 310-314, 270-274).
Start ==
  /\ pc = "start"
  /\ header' = TRUE
  /\ pc' = "AWAITING_INPUT"
  /\ UNCHANGED <<time_threshold, space_threshold, input, out, left_index,
                 right_index, time_window, space_window, current_ts, current_coords,
                 metric_calls, evictions, insertions>>

\* for row in rr: read one row and parse its timestamp (lines 276-279).
\* strptime sits outside the try block: its ValueError leaves go.
ReadRowSwallow ==
  /\ pc = "AWAITING_INPUT"
  /\ Len(input) < MaxRows
  /\ \E row \in Rows :
       /\ input' = Append(input, row)
       /\ IF strptime(row.date).raised
            THEN /\ pc' = "emit"
                 /\ left_index' = left_index + Len(time_window)
                 /\ time_window' = << >>
                 /\ space_window' = << >>
                 /\ UNCHANGED <<current_ts, current_coords>>
            ELSE /\ pc' = "evict"
                 /\ current_coords' = row.coords
                 /\ current_ts' = strptime(row.date).ts
                 /\ UNCHANGED <<left_index, time_window, space_window>>
  /\ UNCHANGED <<time_threshold, space_threshold, header, out, right_index,
                 metric_calls, evictions, insertions>>
ReadRow ==
  /\ pc = "AWAITING_INPUT"
  /\ Len(input) < MaxRows
  /\ \E row \in Rows :
       /\ input' = Append(input, row)
       /\ IF strptime(row.date).raised
            THEN /\ pc' = "FAILED"
                 /\ UNCHANGED <<current_ts, current_coords>>
            ELSE /\ pc' = "evict"
                 /\ current_coords' = row.coords
                 /\ current_ts' = strptime(row.date).ts
  /\ UNCHANGED <<time_threshold, space_threshold, header, out, left_index,
                 right_index, time_window, space_window,
                 metric_calls, evictions, insertions>>

\* The reader is exhausted: the loop and the with block end.
EndOfInput ==
  /\ pc = "AWAITING_INPUT"
  /\ pc' = "DONE"
  /\ UNCHANGED <<time_threshold, space_threshold, input, header, out, left_index,
                 right_index, time_window, space_window, current_ts, current_coords,
                 metric_calls, evictions, insertions>>

\* The try/except of lines 281-289.
EvictTimeOnly ==
  /\ pc = "evict"
  /\ LET r == find(time_window, current_ts) IN
       IF ~r.raised
         THEN /\ left_index' = left_index + r.i
              /\ time_window' = dropn(time_window, r.i)
              /\ space_window' = space_window
         ELSE /\ left_index' = left_index + Len(time_window)
              /\ time_window' = << >>
              /\ space_window' = << >>
  /\ evictions' = evictions + (Len(time_window) - Len(time_window'))
  /\ pc' = "emit"
  /\ UNCHANGED <<time_threshold, space_threshold, input, header, out,
                 right_index, current_ts, current_coords, metric_calls, insertions>>
EvictNoAdvance ==
  /\ pc = "evict"
  /\ LET r == find(time_window, current_ts) IN
       IF ~r.raised
         THEN /\ left_index' = left_index + r.i
              /\ time_window' = dropn(time_window, r.i)
              /\ space_window' = dropn(space_window, r.i)
         ELSE /\ left_index' = left_index
              /\ time_window' = << >>
              /\ space_window' = << >>
  /\ evictions' = evictions + (Len(time_window) - Len(time_window'))
  /\ pc' = "emit"
  /\ UNCHANGED <<time_threshold, space_threshold, input, header, out,
                 right_index, current_ts, current_coords, metric_calls, insertions>>
Evict ==
  /\ pc = "evict"
  /\ LET r == find(time_window, current_ts) IN
       IF ~r.raised
         THEN /\ left_index' = left_index + r.i
              /\ time_window' = dropn(time_window, r.i)
              /\ space_window' = dropn(space_window, r.i)
         ELSE /\ left_index' = left_index + Len(time_window)
              /\ time_window' = << >>
              /\ space_window' = << >>
  /\ evictions' = evictions + (Len(time_window) - Len(time_window'))
  /\ pc' = "emit"
  /\ UNCHANGED <<time_threshold, space_threshold, input, header, out,
                 right_index, current_ts, current_coords, metric_calls, insertions>>

\* Lines 291-304.
EmitUnguarded ==
  /\ pc = "emit"
  /\ out' = out \o EmitLoop(pairwise(space_window, current_coords), 0,
                            left_index, right_index)
  /\ metric_calls' = metric_calls + 1
  /\ pc' = "append"
  /\ UNCHANGED <<time_threshold, space_threshold, input, header, left_index,
                 right_index, time_window, space_window, current_ts, current_coords,
                 evictions, insertions>>
EmitEitherOrder ==
  /\ pc = "emit"
  /\ IF Len(space_window) > 0
       THEN /\ \/ out' = out \o EmitLoop(pairwise(space_window, current_coords), 0,
                                         left_index, right_index)
               \/ out' = out \o EmitLoopReversed(pairwise(space_window, current_coords),
                                                 0, left_index, right_index)
            /\ metric_calls' = metric_calls + 1
       ELSE /\ out' = out
            /\ metric_calls' = metric_calls
  /\ pc' = "append"
  /\ UNCHANGED <<time_threshold, space_threshold, input, header, left_index,
                 right_index, time_window, space_window, current_ts, current_coords,
                 evictions, insertions>>
Emit ==
  /\ pc = "emit"
  /\ IF Len(space_window) > 0
       THEN /\ out' = out \o EmitLoop(pairwise(space_window, current_coords), 0,
                                      left_index, right_index)
            /\ metric_calls' = metric_calls + 1
       ELSE /\ out' = out
            /\ metric_calls' = metric_calls
  /\ pc' = "append"
  /\ UNCHANGED <<time_threshold, space_threshold, input, header, left_index,
                 right_index, time_window, space_window, current_ts, current_coords,
                 evictions, insertions>>

\* Lines 306-308.
AppendObsLeft ==
  /\ pc = "append"
  /\ right_index' = right_index + 1
  /\ time_window' = <<current_ts>> \o time_window
  /\ space_window' = <<current_coords>> \o space_window
  /\ insertions' = insertions + 1
  /\ pc' = "AWAITING_INPUT"
  /\ UNCHANGED <<time_threshold, space_threshold, input, header, out, left_index,
                 current_ts, current_coords, metric_calls, evictions>>
AppendObs ==
  /\ pc = "append"
  /\ right_index' = right_index + 1
  /\ time_window' = Append(time_window, current_ts)
  /\ space_window' = Append(space_window, current_coords)
  /\ insertions' = insertions + 1
  /\ pc' = "AWAITING_INPUT"
  /\ UNCHANGED <<time_threshold, space_threshold, input, header, out, left_index,
                 current_ts, current_coords, metric_calls, evictions>>

Next == Start \/ ReadRow \/ EndOfInput \/ Evict \/ Emit \/ AppendObs

Spec == Init /\ [][Next]_vars

\* ---------------------------------------------------------------- go as a function
\* The body of go (lines 270-308) as a function of the rows consumed: the
\* locals of go after the eviction, the emission and the append of one row,
\* and after a whole sequence of well-formed rows.
GoInit ==
  [left_index |-> 0, right_index |-> 0, time_window |-> << >>,
   space_window |-> << >>, out |-> << >>]
GoEvict(s, ts) ==
  LET r == find(s.time_window, ts) IN
    IF ~r.raised
      THEN [s EXCEPT !.left_index = @ + r.i,
                     !.time_window = dropn(@, r.i),
                     !.space_window = dropn(@, r.i)]
      ELSE [s EXCEPT !.left_index = @ + Len(s.time_window),
                     !.time_window = << >>,
                     !.space_window = << >>]
GoEmit(s, coords) ==
  IF Len(s.space_window) > 0
    THEN [s EXCEPT !.out = @ \o EmitLoop(pairwise(s.space_window, coords), 0,
                                          s.left_index, s.right_index)]
    ELSE s
GoAppend(s, ts, coords) ==
  [s EXCEPT !.right_index = @ + 1,
            !.time_window = Append(@, ts),
            !.space_window = Append(@, coords)]
RECURSIVE Go(_)
Go(rows) ==
  IF rows = << >> THEN GoInit
  ELSE LET row == rows[Len(rows)]
           ts == strptime(row.date).ts
           s == Go(SubSeq(rows, 1, Len(rows) - 1))
       IN GoAppend(GoEmit(GoEvict(s, ts), row.coords), ts, row.coords)

\* ---------------------------------------------------------------- earlier variant
\* The first write_sparse_distance_matrix of the notebook (lines 58-110),
\* with find and dropn of lines 36-45, as a function of the rows consumed.
\* lambda ts: current_ts - ts < time_threshold (line 76)
EarlierTimePred(cur, ts) == cur - ts < time_threshold
\* if d < space_threshold (line 90)
EarlierSpaceTest(d) == d < space_threshold
RECURSIVE EarlierFindFrom(_, _, _)
EarlierFindFrom(coll, cur, i) ==
  IF i >= Len(coll) THEN [raised |-> TRUE, i |-> 0]
  ELSE IF EarlierTimePred(cur, coll[i + 1]) THEN [raised |-> FALSE, i |-> i]
  ELSE EarlierFindFrom(coll, cur, i + 1)
EarlierFind(coll, cur) == EarlierFindFrom(coll, cur, 0)
RECURSIVE EarlierDropn(_, _)
EarlierDropn(deq, n) == IF n = 0 THEN deq ELSE EarlierDropn(Tail(deq), n - 1)
EarlierEmitRows(li, ri, i, d) ==
  << [x |-> li + i, y |-> ri, distance |-> d],
     [x |-> ri, y |-> li + i, distance |-> d] >>
RECURSIVE EarlierEmitLoop(_, _, _, _)
EarlierEmitLoop(distances, i, li, ri) ==
  IF i >= Len(distances) THEN << >>
  ELSE (IF EarlierSpaceTest(distances[i + 1])
          THEN EarlierEmitRows(li, ri, i, distances[i + 1])
          ELSE << >>)
       \o EarlierEmitLoop(distances, i + 1, li, ri)
EarlierEvict(s, ts) ==
  LET r == EarlierFind(s.time_window, ts) IN
    IF ~r.raised
      THEN [s EXCEPT !.left_index = @ + r.i,
                     !.time_window = EarlierDropn(@, r.i),
                     !.space_window = EarlierDropn(@, r.i)]
      ELSE [s EXCEPT !.left_index = @ + Len(s.time_window),
                     !.time_window = << >>,
                     !.space_window = << >>]
EarlierEmit(s, coords) ==
  IF Len(s.space_window) > 0
    THEN [s EXCEPT !.out = @ \o EarlierEmitLoop(pairwise(s.space_window, coords), 0,
                                                 s.left_index, s.right_index)]
    ELSE s
EarlierAppend(s, ts, coords) ==
  [s EXCEPT !.right_index = @ + 1,
            !.time_window = Append(@, ts),
            !.space_window = Append(@, coords)]
RECURSIVE EarlierGo(_)
EarlierGo(rows) ==
  IF rows = << >>
    THEN [left_index |-> 0, right_index |-> 0, time_window |-> << >>,
          space_window |-> << >>, out |-> << >>]
  ELSE LET row == rows[Len(rows)]
           ts == strptime(row.date).ts
           s == EarlierGo(SubSeq(rows, 1, Len(rows) - 1))
       IN EarlierAppend(EarlierEmit(EarlierEvict(s, ts), row.coords), ts, row.coords)

\* ---------------------------------------------------------------- observers
\* The observations of the input, by zero-based global index.
Ts(i) == input[i + 1].date.t
Pos(i) == input[i + 1].coords
WellFormed(i) == input[i + 1].date.ok
\* Number of rows read whose timestamp parsed.
NObs == Cardinality({i \in 0..(Len(input) - 1) : WellFormed(i)})
SortedInput == \A i, j \in 0..(NObs - 1) : i < j => Ts(i) <= Ts(j)
ValidThresholds == time_threshold > 0 /\ space_threshold >= 0
Count(a, b) == Cardinality({k \in 1..Len(out) : out[k].x = a /\ out[k].y = b})
Lo(e) == IF e.x <= e.y THEN e.x ELSE e.y
Hi(e) == IF e.x <= e.y THEN e.y ELSE e.x
Mirror(e) == [x |-> e.y, y |-> e.x, distance |-> e.distance]
Abs(n) == IF n >= 0 THEN n ELSE 0 - n
Processing == pc \in {"evict", "emit", "append"}
IsSuffix(a, b) == Len(a) <= Len(b) /\ a = SubSeq(b, Len(b) - Len(a) + 1, Len(b))
RECURSIVE IsSubseq(_, _)
IsSubseq(a, b) ==
  IF a = << >> THEN TRUE
  ELSE IF b = << >> THEN FALSE
  ELSE IF Head(a) = Head(b) THEN IsSubseq(Tail(a), Tail(b))
  ELSE IsSubseq(a, Tail(b))

\* ---------------------------------------------------------------- claims

Thm_C2_NoFalsePositives ==
  SortedInput =>
    \A k \in 1..Len(out) :
      /\ Ts(Hi(out[k])) - Ts(Lo(out[k])) <= time_threshold
      /\ Dist(Pos(Lo(out[k])), Pos(Hi(out[k]))) <= space_threshold
\* Scenario A: three sorted observations, the first two paired, the third
\* too late for its index neighbour although close enough in space.
Wit_C2 ==
  /\ pc = "DONE" /\ SortedInput /\ ValidThresholds /\ right_index = 3
  /\ Ts(2) - Ts(1) > time_threshold
  /\ Dist(Pos(1), Pos(2)) <= space_threshold
  /\ Count(0, 1) = 1
  /\ \A k \in 1..Len(out) : Hi(out[k]) # 2

\* C3 (symmetry): the rows of the output come in adjacent pairs (x, y, d),
\* (y, x, d); so every row has its mirror in the log and the number of data
\* rows is even.
C3_Inv ==
  /\ Len(out) % 2 = 0
  /\ \A k \in 1..Len(out) : k % 2 = 1 => out[k + 1] = Mirror(out[k])
  /\ \A k \in 1..Len(out) : \E l \in 1..Len(out) : out[l] = Mirror(out[k])
Thm_C3_Symmetry == []C3_Inv
\* Two pairs have been written by a sorted run at an observation boundary.
Wit_C3 ==
  /\ Len(out) >= 4 /\ pc = "AWAITING_INPUT"
  /\ SortedInput /\ ValidThresholds

\* C4 (index consistency): no row has x = y, for any input; and when the
\* pass is over every x and y is in 0 .. right_index - 1.
Thm_C4_IndexConsistency ==
  /\ \A k \in 1..Len(out) : out[k].x # out[k].y
  /\ pc = "DONE" =>
       \A k \in 1..Len(out) :
         out[k].x \in 0..(right_index - 1) /\ out[k].y \in 0..(right_index - 1)
\* A finished run over unsorted input that wrote rows.
Wit_C4 ==
  /\ pc = "DONE" /\ ~SortedInput /\ ValidThresholds
  /\ Len(out) > 0 /\ right_index = MaxRows

\* C5 (closed time bound): the eviction step keeps every window element
\* whose age current_ts - ts is at most time_threshold, the age equal to
\* the threshold included, and every element it drops is older than that.
C5_EvictStep ==
  (pc = "evict" /\ pc' = "emit") =>
    LET n == left_index' - left_index IN
      /\ n \in 0..Len(time_window)
      /\ time_window' = SubSeq(time_window, n + 1, Len(time_window))
      /\ \A k \in 1..Len(time_window) :
           /\ (current_ts - time_window[k] <= time_threshold) => k > n
           /\ k <= n => current_ts - time_window[k] > time_threshold
C6_Qualifying ==
  {k \in 0..(Len(space_window) - 1) :
     Dist(space_window[k + 1], current_coords) <= space_threshold}
C6_EmitStep ==
  (pc = "emit" /\ pc' = "append") =>
    /\ Len(out') = Len(out) + 2 * Cardinality(C6_Qualifying)
    /\ SubSeq(out', 1, Len(out)) = out
    /\ \A k \in C6_Qualifying :
         LET r == Cardinality({q \in C6_Qualifying : q < k})
             d == Dist(space_window[k + 1], current_coords)
         IN /\ out'[Len(out) + 2 * r + 1] =
                 [x |-> left_index + k, y |-> right_index, distance |-> d]
            /\ out'[Len(out) + 2 * r + 2] =
                 [x |-> right_index, y |-> left_index + k, distance |-> d]
C6_Ordered ==
  /\ \A k, l \in 1..Len(out) : k < l => Hi(out[k]) <= Hi(out[l])
  /\ \A k \in 1..Len(out) :
       (k % 2 = 1 /\ k + 2 <= Len(out) /\ Hi(out[k]) = Hi(out[k + 2])) =>
          Lo(out[k]) < Lo(out[k + 2])
Cex_C7_DocumentedStrictness ==
  (SortedInput /\ ValidThresholds) =>
    \A k \in 1..Len(out) :
      /\ Ts(Hi(out[k])) - Ts(Lo(out[k])) # time_threshold
      /\ out[k].distance # space_threshold

\* C8 as claimed (unsorted input only loses pairs): on unsorted, well-formed
\* input with valid thresholds the pass does not fail and every row is for a
\* pair whose absolute time difference is within time_threshold and whose
\* distance is within space_threshold.
Cex_C8_UnsortedSubset ==
  (~SortedInput /\ ValidThresholds) =>
    /\ pc # "FAILED"
    /\ \A k \in 1..Len(out) :
         /\ Abs(Ts(Hi(out[k])) - Ts(Lo(out[k]))) <= time_threshold
         /\ Dist(Pos(Lo(out[k])), Pos(Hi(out[k]))) <= space_threshold
\* C8 as amended: on unsorted input the pass fails only on a malformed
\* timestamp, and every row carries the distance of its pair, which is
\* within space_threshold; nothing is promised about the time difference.
C8_Inv ==
  ~SortedInput =>
    /\ pc = "FAILED" => (Len(input) > 0 /\ ~WellFormed(Len(input) - 1))
    /\ \A k \in 1..Len(out) :
         /\ out[k].distance = Dist(Pos(Lo(out[k])), Pos(Hi(out[k])))
         /\ out[k].distance <= space_threshold
Thm_C8_UnsortedSpaceOnly == []C8_Inv
\* A finished unsorted run that both added a pair too far apart in time and
\* lost a pair that qualifies.
Wit_C8 ==
  /\ pc = "DONE" /\ ~SortedInput /\ ValidThresholds
  /\ \E k \in 1..Len(out) :
       Abs(Ts(Hi(out[k])) - Ts(Lo(out[k]))) > time_threshold
  /\ \E i, j \in 0..(right_index - 1) :
       /\ i < j /\ Abs(Ts(j) - Ts(i)) <= time_threshold
       /\ Dist(Pos(i), Pos(j)) <= space_threshold
       /\ Count(i, j) = 0

\* C9 as claimed (invalid thresholds rejected before processing): with a
\* non-positive time_threshold or a negative space_threshold no row is
\* consumed, no data row is written and the pass never processes an
\* observation (stated for well-formed rows, so that no other error is
\* involved).
Cex_C9_InvalidThresholdRejected ==
  ((time_threshold <= 0 \/ space_threshold < 0)
     /\ \A i \in 0..(Len(input) - 1) : WellFormed(i)) =>
    (input = << >> /\ out = << >> /\ ~Processing /\ pc # "DONE")
\* C9 as amended: thresholds are not validated; the pass runs as usual and
\* fails only on a malformed timestamp.  A negative space_threshold writes
\* no data row; on sorted input a negative time_threshold writes no data
\* row and a zero time_threshold writes rows only for equal timestamps.
Thm_C9_InvalidThresholdNoRows ==
  (time_threshold <= 0 \/ space_threshold < 0) =>
    /\ pc = "FAILED" => (Len(input) > 0 /\ ~WellFormed(Len(input) - 1))
    /\ space_threshold < 0 => out = << >>
    /\ (time_threshold < 0 /\ SortedInput) => out = << >>
    /\ (time_threshold = 0 /\ SortedInput) =>
         \A k \in 1..Len(out) : Ts(Hi(out[k])) = Ts(Lo(out[k]))
\* A pass with a negative space threshold ran to the end over observations
\* at the same place and time and wrote nothing.
Wit_C9 ==
  /\ pc = "DONE" /\ space_threshold < 0 /\ time_threshold > 0
  /\ right_index = MaxRows /\ out = << >>
  /\ \A i \in 0..(right_index - 1) : Ts(i) = Ts(0) /\ Pos(i) = Pos(0)

\* C10 (timestamp parse errors are fatal): reading a row whose timestamp
\* does not match the format ends the pass in FAILED with the window, the
\* indices and the output as they were; nothing changes after FAILED.
C10_ReadStep ==
  /\ (pc = "AWAITING_INPUT" /\ Len(input') = Len(input) + 1
        /\ ~input'[Len(input')].date.ok) =>
       /\ pc' = "FAILED"
       /\ UNCHANGED <<left_index, right_index, time_window, space_window, out>>
  /\ pc = "FAILED" => UNCHANGED vars
  /\ pc' = "FAILED" => (pc = "AWAITING_INPUT" /\ ~input'[Len(input')].date.ok)
Thm_C10_ParseErrorFatal == [][C10_ReadStep]_vars
\* The pass failed on a later row: the rows written before stay, the window
\* still holds the earlier observations.
Wit_C10 ==
  /\ pc = "FAILED" /\ Len(out) > 0 /\ Len(time_window) > 0
  /\ SortedInput /\ ValidThresholds
  /\ right_index = Len(input) - 1

\* C11 (determinism): the locals of go and the output log are, at every
\* position of the pass, a function of the rows read so far and of the two
\* thresholds; so two runs on the same input go through the same states and
\* write the same rows in the same order.
C11_State ==
  [left_index |-> left_index, right_index |-> right_index,
   time_window |-> time_window, space_window |-> space_window, out |-> out]
C11_Before == Go(SubSeq(input, 1, Len(input) - 1))
C11_Inv ==
  /\ pc = "start" => C11_State = GoInit
  /\ pc \in {"AWAITING_INPUT", "DONE"} => C11_State = Go(input)
  /\ pc = "FAILED" => C11_State = C11_Before
  /\ Processing =>
       /\ current_ts = Ts(Len(input) - 1)
       /\ current_coords = Pos(Len(input) - 1)
  /\ pc = "evict" => C11_State = C11_Before
  /\ pc = "emit" => C11_State = GoEvict(C11_Before, current_ts)
  /\ pc = "append" =>
       C11_State = GoEmit(GoEvict(C11_Before, current_ts), current_coords)
C12_Clique ==
  /\ pc = "DONE" /\ SortedInput /\ space_threshold >= 0
  /\ \A i, j \in 0..(Len(input) - 1) :
       Pos(i) = Pos(j) /\ Abs(Ts(j) - Ts(i)) <= time_threshold
C13_EmitStep ==
  /\ (pc = "emit" /\ pc' = "append" /\ Len(space_window) = 0) =>
       (out' = out /\ metric_calls' = metric_calls)
  /\ metric_calls' # metric_calls => (pc = "emit" /\ Len(space_window) > 0)
C13_HeaderOnly ==
  (pc = "DONE" /\ Len(input) <= 1) =>
    (header /\ out = << >> /\ metric_calls = 0)
Thm_C13_EmptyWindowNoWork == []C13_HeaderOnly /\ [][C13_EmitStep]_vars
\* A later observation of a sorted run found every earlier one evicted: the
\* emit step ran over the empty window after an earlier pair was written.
Wit_C13 ==
  /\ pc = "append" /\ SortedInput /\ ValidThresholds
  /\ right_index = 2 /\ Len(space_window) = 0
  /\ Len(out) = 2 /\ metric_calls = 1

\* C14 (live-window invariant): left_index + len(time_window) = right_index
\* in every state, for any input; at an observation boundary right_index is
\* the number of observations consumed; and the eviction step, in both of
\* its branches, leaves left_index + len(time_window) as it was.
C14_Inv ==
  /\ left_index + Len(time_window) = right_index
  /\ Len(time_window) = 0 => left_index = right_index
  /\ pc \in {"AWAITING_INPUT", "DONE", "FAILED"} => right_index = NObs
C14_EvictStep ==
  (pc = "evict" /\ pc' = "emit") =>
    left_index' + Len(time_window') = left_index + Len(time_window)
Thm_C14_LiveWindowInvariant == []C14_Inv /\ [][C14_EvictStep]_vars
\* The second observation cleared the window (no element within the
\* threshold), the third went through find and dropped nothing.
Wit_C14 ==
  /\ pc = "emit" /\ ValidThresholds
  /\ right_index = 2 /\ left_index = 1 /\ Len(time_window) = 1
  /\ Ts(1) - Ts(0) > time_threshold

\* C15 (eviction contract): on sorted input the eviction step removes from
\* the head exactly the elements whose age exceeds time_threshold and keeps
\* the others, in both windows; left_index advances by the number removed;
\* when no element is within the threshold the window is cleared and
\* left_index advances by its whole length.
C15_Stale == {k \in 1..Len(time_window) : current_ts - time_window[k] > time_threshold}
C15_EvictStep ==
  (pc = "evict" /\ pc' = "emit" /\ SortedInput) =>
    LET n == Cardinality(C15_Stale) IN
      /\ C15_Stale = 1..n
      /\ time_window' = SubSeq(time_window, n + 1, Len(time_window))
      /\ space_window' = SubSeq(space_window, n + 1, Len(space_window))
      /\ left_index' = left_index + n
      /\ \A k \in 1..Len(time_window') :
           current_ts - time_window'[k] <= time_threshold
      /\ n = Len(time_window) =>
           (time_window' = << >> /\ space_window' = << >>
              /\ left_index' = left_index + Len(time_window))
Thm_C15_EvictionContract == [][C15_EvictStep]_vars
\* An eviction on sorted input removed one element of two and kept the other.
Wit_C15 ==
  /\ pc = "emit" /\ SortedInput /\ ValidThresholds
  /\ right_index = 2 /\ left_index = 1 /\ Len(time_window) = 1
  /\ Ts(1) - Ts(0) <= time_threshold
  /\ current_ts - Ts(0) > time_threshold
  /\ current_ts - time_window[1] <= time_threshold

\* C16 (window lifecycle): over one observation the window loses zero or
\* more elements at the head (eviction), stays as it is (emission) and gets
\* exactly the new observation at the tail (append); no other step touches
\* it, so it never loses its tail and never reorders; at a boundary its tail
\* is the observation consumed last.
C16_Step ==
  /\ pc = "evict" =>
       /\ pc' = "emit"
       /\ \E n \in 0..Len(time_window) :
            /\ time_window' = SubSeq(time_window, n + 1, Len(time_window))
            /\ space_window' = SubSeq(space_window, n + 1, Len(space_window))
  /\ pc = "emit" => (pc' = "append" /\ UNCHANGED <<time_window, space_window>>)
  /\ pc = "append" =>
       /\ pc' = "AWAITING_INPUT"
       /\ time_window' = time_window \o << Ts(Len(input) - 1) >>
       /\ space_window' = space_window \o << Pos(Len(input) - 1) >>
  /\ ~Processing => UNCHANGED <<time_window, space_window>>
C16_Tail ==
  (pc = "AWAITING_INPUT" /\ right_index > 0) =>
    /\ time_window[Len(time_window)] = Ts(right_index - 1)
    /\ space_window[Len(space_window)] = Pos(right_index - 1)
Thm_C16_WindowLifecycle == []C16_Tail /\ [][C16_Step]_vars
\* After three sorted observations the window has lost its oldest element
\* and holds the two newest.
Wit_C16 ==
  /\ pc = "AWAITING_INPUT" /\ SortedInput /\ ValidThresholds
  /\ right_index = 3 /\ left_index = 1 /\ Len(time_window) = 2
  /\ Ts(2) > Ts(1)

\* C17 (step ordering): rows are written and the metric is called only in
\* the emit step, which runs after the eviction of that observation is
\* complete (nothing left that the eviction would remove; on sorted input
\* every element is within the threshold) and before the observation is
\* appended (the window holds indices below right_index only); elements are
\* removed only by the eviction step, added only by the append step, and a
\* row is read only between observations.
C17_Step ==
  /\ (out' # out \/ metric_calls' # metric_calls) => pc = "emit"
  /\ pc = "emit" =>
       /\ Len(time_window) > 0 => current_ts - time_window[1] <= time_threshold
       /\ SortedInput =>
            \A k \in 1..Len(time_window) :
              current_ts - time_window[k] <= time_threshold
       /\ left_index + Len(time_window) = right_index
       /\ right_index = Len(input) - 1
       /\ pc' = "append"
       /\ UNCHANGED <<input, time_window, space_window, left_index, right_index>>
  /\ evictions' # evictions => (pc = "evict" /\ pc' = "emit" /\ out' = out)
  /\ insertions' # insertions => (pc = "append" /\ pc' = "AWAITING_INPUT" /\ out' = out)
  /\ input' # input => (pc = "AWAITING_INPUT" /\ out' = out)
Thm_C17_StepOrdering == [][C17_Step]_vars
\* The third observation of a sorted run evicted the first and was then
\* paired with the second only.
Wit_C17 ==
  /\ pc = "append" /\ SortedInput /\ ValidThresholds
  /\ right_index = 2 /\ left_index = 1
  /\ Ts(1) - Ts(0) <= time_threshold
  /\ Dist(Pos(0), Pos(2)) <= space_threshold
  /\ Count(1, 2) = 1 /\ Count(0, 2) = 0

\* C18 (eviction bound and index monotonicity): 0 <= left_index <=
\* right_index; left_index is the number of elements evicted so far and
\* never decreases; right_index is the number of insertions and grows by
\* exactly 1 per observation; so evictions never exceed insertions, and a
\* finished pass over N well-formed rows has right_index = N.
C18_Inv ==
  /\ 0 <= left_index /\ left_index <= right_index
  /\ left_index = evictions
  /\ right_index = insertions
  /\ evictions <= insertions
  /\ pc = "DONE" => right_index = Len(input)
C18_Step ==
  /\ left_index' >= left_index
  /\ pc = "append" => right_index' = right_index + 1
  /\ pc # "append" => right_index' = right_index
Thm_C18_IndexMonotonicity == []C18_Inv /\ [][C18_Step]_vars
\* A finished pass over MaxRows sorted rows in which elements were evicted.
Wit_C18 ==
  /\ pc = "DONE" /\ SortedInput /\ ValidThresholds
  /\ right_index = MaxRows /\ left_index >= 1 /\ left_index < right_index

\* C19 (window/index correspondence): for any input, time_window and
\* space_window have the same length and their k-th elements are the
\* timestamp and the coordinates of observation left_index + k, the window
\* being the run of observations left_index .. right_index - 1; and every
\* row (x, y, d) carries d = metric(coordinates of x, coordinates of y).
C19_Inv ==
  /\ Len(time_window) = Len(space_window)
  /\ left_index + Len(time_window) = right_index
  /\ \A k \in 0..(Len(time_window) - 1) :
       /\ time_window[k + 1] = Ts(left_index + k)
       /\ space_window[k + 1] = Pos(left_index + k)
  /\ \A k \in 1..Len(out) :
       out[k].distance = Dist(Pos(out[k].x), Pos(out[k].y))
Thm_C19_WindowIndexCorrespondence == []C19_Inv
\* After an eviction the window holds observations 1 and 2, which lie at
\* different places and were paired at distance 1, while observation 0 lies
\* where observation 2 does.
Wit_C19 ==
  /\ pc = "AWAITING_INPUT" /\ ValidThresholds
  /\ right_index = 3 /\ left_index = 1
  /\ Pos(0) = Pos(2) /\ Pos(1) # Pos(2)
  /\ \E k \in 1..Len(out) : out[k].x = 1 /\ out[k].y = 2 /\ out[k].distance = 1

\* C20 (the two variants): on the same sorted input and thresholds, after
\* the same number of rows, the earlier variant (strict tests) has the same
\* right_index as the later one (closed tests), its window is a suffix of
\* the later window and its output a subsequence of the later output; the
\* outputs are equal when no two observations are exactly time_threshold
\* apart and no compared pair is at distance exactly space_threshold.
C20_Earlier == EarlierGo(SubSeq(input, 1, right_index))
C20_NoTie ==
  \A i, j \in 0..(right_index - 1) :
    i < j =>
      /\ Ts(j) - Ts(i) # time_threshold
      /\ Ts(j) - Ts(i) <= time_threshold =>
           Dist(Pos(i), Pos(j)) # space_threshold
C20_Inv ==
  (pc \in {"AWAITING_INPUT", "DONE", "FAILED"} /\ SortedInput) =>
    /\ C20_Earlier.right_index = right_index
    /\ C20_Earlier.left_index >= left_index
    /\ IsSuffix(C20_Earlier.time_window, time_window)
    /\ IsSuffix(C20_Earlier.space_window, space_window)
    /\ IsSubseq(C20_Earlier.out, out)
    /\ C20_NoTie => C20_Earlier.out = out
Thm_C20_VariantsRelated == []C20_Inv
\* A finished sorted run in which the earlier variant wrote some but not all
\* of the later variant's rows and kept a shorter window.
Wit_C20 ==
  /\ pc = "DONE" /\ SortedInput /\ ValidThresholds /\ right_index = 3
  /\ Len(C20_Earlier.out) > 0 /\ Len(C20_Earlier.out) < Len(out)
  /\ Len(C20_Earlier.time_window) < Len(time_window)

====
